---- MODULE Spec2Model ----
(***************************************************************************)
(* State-machine model of pyemma/coordinates/transform/tica.py:            *)
(* the TICA estimator (lazy diagonalization, dimension policy, property    *)
(* setters) and the estimation step of EquilibriumCorrectedTICA.           *)
(*                                                                         *)
(* Numbers.  Matrices are modelled by their diagonals (a sequence of       *)
(* integers, one entry per input feature); var_cutoff is in percent        *)
(* (100 stands for 1.0, 95 for the default 0.95); a cumulative variance    *)
(* entry is the fraction num/den, and den = 0 is the NaN numpy produces    *)
(* for 0.0/0.0.  An unset attribute is the empty sequence.                 *)
(***************************************************************************)
EXTENDS Integers, Sequences, FiniteSets, TLC

(* ------------------------------ bounds --------------------------------- *)
\* largest input dimension of a data source
MaxInDim == 2
\* largest rank r of the Koopman basis R (C_0_eq is (r+1) x (r+1))
MaxRank == 1

(* --------------------------- program constants ------------------------- *)
\* default of the var_cutoff argument (0.95), in percent
DefaultVarCutoff == 95

Unset == << >>
IsSet(v) == v # Unset

Abs(x) == IF x < 0 THEN -x ELSE x

InDims == 1 .. MaxInDim
\* variances: 1 is a variance at the smallest epsilon (cut off), 2 a kept one
CovVals == {1, 2}
\* lagged covariances
CtVals == {0, 2}
MeanVals == {0}
EpsVals == {1, 2}
\* eigenvalues of K_eq
LamVals == {-1, 0, 1}
\* eigenvalues of C_0_eq
SVals == {-2, 0, 2, 3}

Vec(d, S) == [1 .. d -> S]
\* the values written through the setters: one vector of the largest dimension
CovVecs == {[i \in 1 .. MaxInDim |-> 1]}
CtVecs == {[i \in 1 .. MaxInDim |-> 2]}
MeanVecs == {[i \in 1 .. MaxInDim |-> 1]}

\* statistics a covariance accumulator can hold for input dimension d: a lagged
\* covariance never exceeds the variance (Cauchy-Schwarz), and the features are
\* listed by decreasing variance (their order is immaterial)
Stats(d) ==
  {S \in [mean : Vec(d, MeanVals), cov : Vec(d, CovVals), cov_tau : Vec(d, CtVals)] :
     /\ \A i \in 1 .. d : Abs(S.cov_tau[i]) <= S.cov[i]
     /\ \A i \in 1 .. d - 1 : S.cov[i] >= S.cov[i + 1]}
\* every data set: its input dimension is the length of its statistics
DataSets == UNION {Stats(d) : d \in InDims}
InDim(S) == Len(S.cov)
NoStats == [mean |-> Unset, cov |-> Unset, cov_tau |-> Unset]

(* ------------------------- pure numerical helpers ---------------------- *)
RECURSIVE InsertByNorm(_, _)
\* insert pair p behind every pair of norm >= its own (stable, descending)
InsertByNorm(p, sorted) ==
  IF sorted = << >> THEN << p >>
  ELSE IF Abs(Head(sorted).val) >= Abs(p.val)
       THEN << Head(sorted) >> \o InsertByNorm(p, Tail(sorted))
       ELSE << p >> \o sorted

RECURSIVE sort_by_norm(_)
\* eigenpairs ordered by descending norm of the eigenvalue
sort_by_norm(pairs) ==
  IF pairs = << >> THEN << >>
  ELSE InsertByNorm(pairs[Len(pairs)], sort_by_norm(SubSeq(pairs, 1, Len(pairs) - 1)))

RECURSIVE KeptPairs(_, _, _, _)
\* the generalized eigenpairs of the diagonal problem, in feature order:
\* features whose variance is <= epsilon are cut off
KeptPairs(cov, cov_tau, eps, i) ==
  IF i > Len(cov) THEN << >>
  ELSE (IF cov[i] > eps THEN << [val |-> cov_tau[i] \div cov[i], vec |-> i] >> ELSE << >>)
       \o KeptPairs(cov, cov_tau, eps, i + 1)

\* eig_corr(C0, Ct, epsilon): eigenpairs sorted by descending norm
eig_corr(cov, cov_tau, eps) == sort_by_norm(KeptPairs(cov, cov_tau, eps, 1))

Vals(pairs) == [i \in 1 .. Len(pairs) |-> pairs[i].val]
Vecs(pairs) == [i \in 1 .. Len(pairs) |-> pairs[i].vec]

RECURSIVE SumSq(_, _)
\* sum of |lambda_i|^2 for i <= k
SumSq(ev, k) == IF k = 0 THEN 0 ELSE SumSq(ev, k - 1) + Abs(ev[k]) * Abs(ev[k])

\* np.cumsum(np.abs(eigenvalues) ** 2) divided by its last entry
Cumvar(ev) == [k \in 1 .. Len(ev) |-> [num |-> SumSq(ev, k), den |-> SumSq(ev, Len(ev))]]

IsNaN(c) == c.den = 0
\* c < v for a cumvar entry c and a var_cutoff v in percent; NaN sorts last
LessThanCutoff(c, v) == ~IsNaN(c) /\ c.num * 100 < v * c.den
\* np.searchsorted(cumvar, v): number of entries ordered before v
searchsorted(cv, v) == Cardinality({i \in 1 .. Len(cv) : LessThanCutoff(cv[i], v)})

Min(a, b) == IF a <= b THEN a ELSE b

(* ------------------------------- state --------------------------------- *)
VARIABLES
  cls,            \* "none" before construction, else the class of the estimator
  dim, var_cutoff, kinetic_map, commute_map, reversible, epsilon,
  covar,          \* self._covar: the covariance accumulator's statistics
  model,          \* self._model: the TICAModel attribute bag
  estimated,      \* self._estimated
  data_producer,  \* input dimension of self.data_producer, 0 for None
  evmin, ep0, s_kept, \* EquilibriumCorrectedTICA._estimate: np.min(s), the local
                  \* cutoff and the spectrum kept for R_eq
  lastOp, lastErr,\* the most recent call and the exception it raised ("none")
  lastArgs,       \* the arguments of the most recent constructor call
  solverRan,      \* the most recent call invoked an eigen-solver
  fitPending      \* a partial_fit succeeded since the last completed diagonalization

cfgvars == << cls, dim, var_cutoff, kinetic_map, commute_map, reversible, epsilon >>
callvars == << cfgvars, lastArgs >>
eqvars == << evmin, ep0, s_kept >>
objvars == << covar, model, estimated, data_producer, eqvars, fitPending >>
vars == << cls, dim, var_cutoff, kinetic_map, commute_map, reversible, epsilon,
           covar, model, estimated, data_producer, evmin, ep0, s_kept,
           lastOp, lastErr, lastArgs, solverRan, fitPending >>

EmptyModel == [mean |-> Unset, cov |-> Unset, cov_tau |-> Unset,
               eigenvalues |-> Unset, eigenvectors |-> Unset, cumvar |-> Unset]

(* ---------------------------- construction ----------------------------- *)
DimArgs == {-2, -1, 2}
VarCutoffArgs == {50, DefaultVarCutoff, 100}
Classes == {"TICA", "EquilibriumCorrectedTICA"}
CtorArgs == [dim : DimArgs, var_cutoff : VarCutoffArgs, kinetic_map : BOOLEAN,
             commute_map : BOOLEAN, reversible : BOOLEAN, epsilon : EpsVals]

\* the exception _TICA.__init__ raises for arguments a, "none" if it returns
CtorErr(a) ==
  IF a.dim # -1 /\ a.var_cutoff # DefaultVarCutoff THEN "ValueError"
  ELSE IF a.kinetic_map /\ a.commute_map THEN "ValueError"
  ELSE IF (a.kinetic_map \/ a.commute_map) /\ ~a.reversible THEN "NotImplementedError"
  ELSE "none"

\* the var_cutoff stored by set_params
CtorVarCutoff(a) == IF a.dim > -1 THEN 100 ELSE a.var_cutoff

Fresh(c, a) ==
  /\ cls' = c
  /\ dim' = a.dim
  /\ var_cutoff' = CtorVarCutoff(a)
  /\ kinetic_map' = a.kinetic_map
  /\ commute_map' = a.commute_map
  /\ reversible' = a.reversible
  /\ epsilon' = a.epsilon
  /\ covar' = NoStats
  /\ model' = EmptyModel
  /\ estimated' = FALSE
  /\ data_producer' = 0
  /\ evmin' = 0
  /\ ep0' = 0
  /\ s_kept' = Unset
  /\ fitPending' = FALSE

NoObject ==
  /\ cls = "none"
  /\ dim = -1 /\ var_cutoff = DefaultVarCutoff
  /\ kinetic_map = TRUE /\ commute_map = FALSE /\ reversible = TRUE /\ epsilon = 1
  /\ covar = NoStats /\ model = EmptyModel /\ estimated = FALSE /\ data_producer = 0
  /\ evmin = 0 /\ ep0 = 0 /\ s_kept = Unset /\ fitPending = FALSE

\* c(**a): a failing constructor creates no object
Construct(c, a) ==
  /\ cls = "none"
  /\ lastOp' = "__init__"
  /\ lastErr' = CtorErr(a)
  /\ lastArgs' = a
  /\ solverRan' = FALSE
  /\ IF CtorErr(a) = "none" THEN Fresh(c, a) ELSE UNCHANGED << cfgvars, objvars >>

DefaultArgs == [dim |-> -1, var_cutoff |-> DefaultVarCutoff, kinetic_map |-> TRUE,
                commute_map |-> FALSE, reversible |-> TRUE, epsilon |-> 1]

\* before any constructor call
InitCtor ==
  /\ NoObject
  /\ lastOp = "start" /\ lastErr = "none" /\ lastArgs = DefaultArgs /\ solverRan = FALSE

NextCtor == \E c \in Classes, a \in CtorArgs : Construct(c, a)

\* the constructor alone, over every argument combination
SpecCtor == InitCtor /\ [][NextCtor]_vars

\* the arguments the estimator's life cycle is explored for: the default scaling flags
LifeArgs == {a \in CtorArgs : a.kinetic_map /\ ~a.commute_map /\ a.reversible}

\* the state c(**a) returns
Init ==
  \E c \in Classes, a \in LifeArgs :
    /\ CtorErr(a) = "none"
    /\ cls = c
    /\ dim = a.dim
    /\ var_cutoff = CtorVarCutoff(a)
    /\ kinetic_map = a.kinetic_map
    /\ commute_map = a.commute_map
    /\ reversible = a.reversible
    /\ epsilon = a.epsilon
    /\ covar = NoStats
    /\ model = EmptyModel
    /\ estimated = FALSE
    /\ data_producer = 0
    /\ evmin = 0
    /\ ep0 = 0
    /\ s_kept = Unset
    /\ fitPending = FALSE
    /\ lastOp = "__init__" /\ lastErr = "none" /\ lastArgs = a /\ solverRan = FALSE

(* ------------------------- TICA._diagonalize --------------------------- *)
\* outcome of _diagonalize() on accumulator statistics cv and model m:
\* the exception raised ("none" if it completes), the eigenpairs found, and
\* whether the eigen-solver was entered
DiagOf(cv, m) ==
  IF ~IsSet(cv.cov)
  THEN [err |-> "NotEstimatedError", pairs |-> << >>, ran |-> FALSE]
  ELSE IF Len(m.cov_tau) # Len(cv.cov)
  THEN [err |-> "ValueError", pairs |-> << >>, ran |-> TRUE]
  ELSE LET pairs == eig_corr(cv.cov, m.cov_tau, epsilon)
       IN  IF pairs = << >>
           THEN [err |-> "IndexError", pairs |-> pairs, ran |-> TRUE]
           ELSE [err |-> "none", pairs |-> pairs, ran |-> TRUE]

\* the model after update_model_params(cumvar, eigenvalues, eigenvectors)
Diagonalized(m, pairs) ==
  [m EXCEPT !.cumvar = Cumvar(Vals(pairs)),
            !.eigenvalues = Vals(pairs),
            !.eigenvectors = Vecs(pairs)]

\* faulty variant: the decorator diagonalizes on every read
LazyAlwaysDiag == TRUE

\* _lazy_estimation: diagonalize first unless already estimated
LazyNeedsDiag == ~estimated

\* _diagonalize() carries no guard of its own: it always solves
DirectNeedsDiag == TRUE

\* run _diagonalize() on the current accumulator and model if `needed`
MaybeDiagonalize(needed) ==
  LET r == DiagOf(covar, model)
  IN  /\ solverRan' = (needed /\ r.ran)
      /\ lastErr' = IF needed THEN r.err ELSE "none"
      /\ IF needed /\ r.err = "none"
         THEN /\ model' = Diagonalized(model, r.pairs)
              /\ estimated' = TRUE
              /\ fitPending' = FALSE
         ELSE UNCHANGED << model, estimated, fitPending >>

\* TICA._diagonalize() called directly
Diagonalize ==
  /\ cls = "TICA"
  /\ lastOp' = "_diagonalize"
  /\ MaybeDiagonalize(DirectNeedsDiag)
  /\ UNCHANGED << callvars, covar, data_producer, eqvars >>

(* --------------------------- property reads ---------------------------- *)
LazyProps == {"eigenvalues", "eigenvectors", "cumvar", "timescales"}

\* TICA.eigenvalues / eigenvectors / cumvar (@_lazy_estimation) and
\* _TICA.timescales, which reads self.eigenvalues
ReadLazy(p) ==
  /\ cls = "TICA"
  /\ lastOp' = p
  /\ MaybeDiagonalize(LazyNeedsDiag)
  /\ UNCHANGED << callvars, covar, data_producer, eqvars >>

\* TICA.feature_TIC_correlation: reads self.cov, then self.eigenvectors
ReadFeatureCorrelation ==
  /\ cls = "TICA"
  /\ lastOp' = "feature_TIC_correlation"
  /\ IF ~IsSet(model.cov)
     THEN /\ lastErr' = "AttributeError"
          /\ solverRan' = FALSE
          /\ UNCHANGED << model, estimated, fitPending >>
     ELSE LET r == DiagOf(covar, model)
              need == LazyNeedsDiag
          IN  /\ solverRan' = (need /\ r.ran)
              /\ IF need /\ r.err = "none"
                 THEN /\ model' = Diagonalized(model, r.pairs)
                      /\ estimated' = TRUE
                      /\ fitPending' = FALSE
                 ELSE UNCHANGED << model, estimated, fitPending >>
              /\ lastErr' = IF need /\ r.err # "none" THEN r.err
                            ELSE IF Len(model.cov) # Len(covar.cov) THEN "ValueError"
                            ELSE "none"
  /\ UNCHANGED << callvars, covar, data_producer, eqvars >>

EqProps == {"eigenvalues", "cumvar", "timescales"}

\* EquilibriumCorrectedTICA.eigenvalues / cumvar return the model attribute, and
\* _TICA.timescales reads self.eigenvalues
ReadEq(p) ==
  /\ cls = "EquilibriumCorrectedTICA"
  /\ lastOp' = p
  /\ lastErr' = IF p \in {"eigenvalues", "timescales"} /\ IsSet(model.eigenvalues) THEN "none"
                ELSE IF p = "cumvar" /\ IsSet(model.cumvar) THEN "none"
                ELSE "AttributeError"
  /\ solverRan' = FALSE
  /\ UNCHANGED << callvars, objvars >>

(* ------------------------------ dimension() ---------------------------- *)
\* faulty variant: the early return taken for every dim other than -1
DimIsNotDefault == dim # -1

\* the fixed-dim early return of dimension()
DimIsFixed == dim > -1

\* faulty variant: the last branch returns the input dimension instead of raising
GuessedDimension == [err |-> "none", val |-> data_producer]

\* the last branch of dimension(): nothing is known
UnknownDimension == [err |-> "RuntimeError", val |-> 0]

\* _TICA.dimension(): the exception raised and the value returned
dimension ==
  IF DimIsFixed THEN [err |-> "none", val |-> dim]
  ELSE IF dim # -1 /\ ~estimated THEN [err |-> "none", val |-> dim]
  ELSE IF estimated
  THEN [err |-> "none",
        val |-> IF var_cutoff < 100
                THEN Min(Len(model.eigenvalues), searchsorted(model.cumvar, var_cutoff) + 1)
                ELSE Len(model.eigenvalues)]
  ELSE IF var_cutoff = 100
  THEN (IF data_producer = 0 THEN [err |-> "AttributeError", val |-> 0]
        ELSE [err |-> "none", val |-> data_producer])
  ELSE UnknownDimension

Dimension ==
  /\ cls # "none"
  /\ lastOp' = "dimension"
  /\ lastErr' = dimension.err
  /\ solverRan' = FALSE
  /\ UNCHANGED << callvars, objvars >>

(* ------------------------ partial_fit / estimate ----------------------- *)
\* the test "if not self.dim <= indim: raise RuntimeError"
DimExceeds(indim) == ~(dim <= indim)

\* faulty variant: partial_fit forgets to invalidate the eigenpairs
FlagKeptByPartialFit == estimated

\* self._estimated as partial_fit leaves it
FlagAfterPartialFit == FALSE

\* TICA.partial_fit(X): S are the accumulator's statistics once X is added
PartialFit(S) ==
  LET d == InDim(S) IN
  /\ cls = "TICA"
  /\ lastOp' = "partial_fit"
  /\ solverRan' = FALSE
  /\ IF DimExceeds(d)
     THEN /\ lastErr' = "RuntimeError"
          /\ UNCHANGED objvars
     ELSE IF IsSet(covar.cov) /\ Len(covar.cov) # d
     THEN /\ lastErr' = "ValueError"
          /\ UNCHANGED objvars
     ELSE /\ lastErr' = "none"
          /\ covar' = S
          /\ model' = [model EXCEPT !.mean = S.mean, !.cov = S.cov, !.cov_tau = S.cov_tau]
          /\ estimated' = FlagAfterPartialFit
          /\ fitPending' = TRUE
          /\ UNCHANGED << data_producer, eqvars >>
  /\ UNCHANGED callvars

\* TICA.estimate(X): X has statistics S
Estimate(S) ==
  LET d == InDim(S) IN
  /\ cls = "TICA"
  /\ lastOp' = "estimate"
  /\ data_producer' = d
  /\ IF DimExceeds(d)
     THEN /\ lastErr' = "RuntimeError"
          /\ solverRan' = FALSE
          /\ UNCHANGED << covar, model, estimated, fitPending >>
     ELSE LET m == [model EXCEPT !.mean = S.mean, !.cov = S.cov, !.cov_tau = S.cov_tau]
              r == DiagOf(S, m)
          IN  /\ covar' = S
              /\ lastErr' = r.err
              /\ solverRan' = r.ran
              /\ IF r.err = "none"
                 THEN /\ model' = Diagonalized(m, r.pairs)
                      /\ estimated' = TRUE
                      /\ fitPending' = FALSE
                 ELSE /\ model' = m
                      /\ UNCHANGED << estimated, fitPending >>
  /\ UNCHANGED << callvars, eqvars >>

(* ------------------------------ setters -------------------------------- *)
\* _TICA.mean setter
SetMean(v) ==
  /\ cls # "none"
  /\ lastOp' = "set_mean" /\ lastErr' = "none" /\ solverRan' = FALSE
  /\ model' = [model EXCEPT !.mean = v]
  /\ UNCHANGED << callvars, covar, estimated, data_producer, eqvars, fitPending >>

\* TICA.cov setter
SetCov(v) ==
  /\ cls = "TICA"
  /\ lastOp' = "set_cov" /\ lastErr' = "none" /\ solverRan' = FALSE
  /\ model' = [model EXCEPT !.cov = v]
  /\ UNCHANGED << callvars, covar, estimated, data_producer, eqvars, fitPending >>

\* TICA.cov_tau setter
SetCovTau(v) ==
  /\ cls = "TICA"
  /\ lastOp' = "set_cov_tau" /\ lastErr' = "none" /\ solverRan' = FALSE
  /\ model' = [model EXCEPT !.cov_tau = v]
  /\ UNCHANGED << callvars, covar, estimated, data_producer, eqvars, fitPending >>

(* ------------------ EquilibriumCorrectedTICA._estimate ----------------- *)
Max(a, b) == IF a >= b THEN a ELSE b

RECURSIVE MinOf(_)
\* np.min(s)
MinOf(s) == IF Len(s) = 1 THEN s[1] ELSE Min(s[1], MinOf(Tail(s)))

\* faulty variant: the configured epsilon is used as it is
ConfiguredCutoff(s, eps) == eps

\* the local cutoff: raised above epsilon when C_0_eq has a negative eigenvalue
LocalCutoff(s, eps) ==
  LET smin == MinOf(s)
  IN  IF smin < 0 THEN Max(eps, -smin) ELSE eps

AsPairs(s) == [i \in 1 .. Len(s) |-> [val |-> s[i], vec |-> i]]

\* np.where(np.abs(s) > ep0) after sort_by_norm: the spectrum kept for R_eq
KeptSpectrum(s, e0) ==
  LET Above(p) == Abs(p.val) > e0
  IN  Vals(SelectSeq(sort_by_norm(AsPairs(s)), Above))

IsAscending(s) == \A i \in 1 .. Len(s) - 1 : s[i] <= s[i + 1]
\* what scl.eigh returns for an n x n matrix with eigenvalues in V
Spectra(n, V) == {s \in Vec(n, V) : IsAscending(s)}

\* the data sets fed to the equilibrium estimator: every feature has full variance
EqDataSets == {S \in DataSets : \A i \in 1 .. InDim(S) : S.cov[i] = 2 /\ S.cov_tau[i] = 0}

\* the inputs of one equilibrium estimation under cutoff e: the data set, the
\* spectrum s of C_0_eq (an (r+1) x (r+1) matrix, 1 <= r <= input dimension) and
\* the spectrum lam of K_eq, as long as the kept part of s
EqInputs ==
  [e \in EpsVals |->
    UNION {UNION {
      {[S |-> S, s |-> s, lam |-> lam] :
         lam \in Spectra(Len(KeptSpectrum(s, LocalCutoff(s, e))), LamVals)} :
      s \in UNION {Spectra(r + 1, SVals) : r \in 1 .. Min(InDim(S), MaxRank)}} :
      S \in EqDataSets}]

\* EquilibriumCorrectedTICA.estimate(X): S are the statistics of the fresh
\* accumulator, s is the spectrum of C_0_eq and lam the spectrum of K_eq
EqEstimate(S, s, lam) ==
  LET d == InDim(S) IN
  /\ cls = "EquilibriumCorrectedTICA"
  /\ lastOp' = "estimate"
  /\ data_producer' = d
  /\ covar' = [S EXCEPT !.cov_tau = Unset]
  /\ evmin' = MinOf(s)
  /\ ep0' = LocalCutoff(s, epsilon)
  /\ s_kept' = KeptSpectrum(s, LocalCutoff(s, epsilon))
  /\ solverRan' = TRUE
  /\ IF lam = << >>
     THEN /\ lastErr' = "IndexError"
          /\ UNCHANGED << model, estimated >>
     ELSE LET ev == Vals(sort_by_norm(AsPairs(lam)))
          IN  /\ lastErr' = "none"
              /\ model' = [model EXCEPT !.mean = S.mean, !.cumvar = Cumvar(ev),
                                        !.eigenvalues = ev]
              /\ estimated' = TRUE
  /\ UNCHANGED << callvars, fitPending >>

(* --------------------------- _transform_array -------------------------- *)
\* the length of the Python slice a[0:k] of a sequence of length n
SliceLen(n, k) == IF k >= 0 THEN Min(n, k) ELSE Max(n + k, 0)

\* the number of columns of the array transform(X) returns on an estimated
\* estimator.  TICA: X_meanfree . eigenvectors[:, 0:dimension()].
\* EquilibriumCorrectedTICA: X . _tr + _tr_c, and _tr = R . W[0:r, :] has one
\* column per eigenvector of K_eq, a square matrix with one row per kept
\* eigenvalue of C_0_eq
transform_columns ==
  IF cls = "TICA" THEN SliceLen(Len(model.eigenvectors), dimension.val)
  ELSE Len(s_kept)

(* --------------------------- specification ----------------------------- *)
\* the calls on a TICA object
Next ==
  \/ \E S \in DataSets : PartialFit(S)
  \/ \E S \in DataSets : Estimate(S)
  \/ \E p \in LazyProps : ReadLazy(p)
  \/ ReadFeatureCorrelation
  \/ Diagonalize
  \/ Dimension
  \/ \E v \in MeanVecs : SetMean(v)
  \/ \E v \in CovVecs : SetCov(v)
  \/ \E v \in CtVecs : SetCovTau(v)

InitOf(c) == Init /\ cls = c

\* a TICA object is followed under the smaller cutoff: under the larger one
\* every feature of every data set is cut off, as it is here when all variances are 1
InitTICA == InitOf("TICA") /\ epsilon = 1

Spec == InitTICA /\ [][Next]_vars

\* the calls on an EquilibriumCorrectedTICA object
NextEq ==
  \/ \E x \in EqInputs[epsilon] : EqEstimate(x.S, x.s, x.lam)
  \/ \E p \in EqProps : ReadEq(p)
  \/ Dimension

SpecEq == InitOf("EquilibriumCorrectedTICA") /\ [][NextEq]_vars

(* ------------------------------- claims -------------------------------- *)
EigenReads == {"eigenvalues", "eigenvectors", "cumvar"}

\* C1: on a TICA object, a partial_fit that succeeds leaves estimated = false; a
\* read of eigenvalues, eigenvectors or cumvar that returns has run the
\* diagonalization if the eigenpairs were stale, leaves estimated = true, and
\* returns eigenpairs computed after the most recent successful partial_fit.
C1_LazyRefresh ==
  [][ /\ (lastOp' = "partial_fit" /\ lastErr' = "none") => (~estimated' /\ fitPending')
      /\ (lastOp' \in EigenReads /\ lastErr' = "none") =>
           /\ estimated'
           /\ ~fitPending'
           /\ (~estimated => solverRan' /\ model'.eigenvalues = Vals(eig_corr(covar.cov, model.cov_tau, epsilon)))
      /\ (lastOp' \in EigenReads /\ fitPending) => solverRan'
    ]_vars

\* a read that diagonalized data which only partial_fit supplied
C1_Witness ==
  /\ lastOp \in EigenReads /\ lastErr = "none" /\ solverRan
  /\ data_producer = 0 /\ estimated /\ IsSet(model.eigenvalues)

\* the smallest k with cumvar[k-1] >= var_cutoff
HasSmallestK == \E k \in 1 .. Len(model.cumvar) : ~LessThanCutoff(model.cumvar[k], var_cutoff) /\ ~IsNaN(model.cumvar[k])
SmallestK ==
  CHOOSE k \in 1 .. Len(model.cumvar) :
    /\ ~IsNaN(model.cumvar[k]) /\ model.cumvar[k].num * 100 >= var_cutoff * model.cumvar[k].den
    /\ \A j \in 1 .. k - 1 : model.cumvar[j].num * 100 < var_cutoff * model.cumvar[j].den

\* what the dimension policy computes from the eigenpairs
ComputedDimension ==
  IF var_cutoff = 100 THEN Len(model.eigenvalues)
  ELSE Min(Len(model.eigenvalues),
           Cardinality({i \in 1 .. Len(model.cumvar) : LessThanCutoff(model.cumvar[i], var_cutoff)}) + 1)

ConflictingArgs(a) ==
  \/ a.dim # -1 /\ a.var_cutoff # DefaultVarCutoff
  \/ a.kinetic_map /\ a.commute_map
  \/ (a.kinetic_map \/ a.commute_map) /\ ~a.reversible

\* C4: a constructor call with conflicting arguments raises and creates no
\* estimator; every estimator that was constructed never has dim set (dim # -1)
\* together with var_cutoff < 1, never has both scaling flags, and is reversible
\* whenever a scaling flag is set.
C4_AsStated ==
  /\ (lastOp = "__init__" /\ ConflictingArgs(lastArgs)) =>
       (lastErr \in {"ValueError", "NotImplementedError"} /\ cls = "none")
  /\ cls # "none" =>
       /\ ~(dim # -1 /\ var_cutoff < 100)
       /\ ~(kinetic_map /\ commute_map)
       /\ (kinetic_map \/ commute_map) => reversible

\* C5: a partial_fit or estimate call whose dim exceeds the input dimension of
\* its data raises RuntimeError and leaves the accumulator, the model (mean, cov,
\* cov_tau, eigenpairs) and the estimation flag unchanged; so a call of either
\* kind that succeeds has dim <= the input dimension of the accumulated data.
C5_AsStated ==
  [][ /\ (lastOp' = "estimate" /\ dim > data_producer') =>
           (lastErr' = "RuntimeError" /\ UNCHANGED << covar, model, estimated >>)
      /\ (lastOp' \in {"partial_fit", "estimate"} /\ lastErr' = "none") => dim <= Len(covar'.cov)
      /\ (lastOp' \in {"partial_fit", "estimate"} /\ lastErr' = "RuntimeError") =>
           UNCHANGED << covar, model, estimated >>
    ]_vars

NeedDiagonalized == LazyProps \cup {"feature_TIC_correlation"}

\* C6: while no partial_fit or estimate has succeeded, a read of eigenvalues,
\* eigenvectors, cumvar, timescales or the feature correlation raises
\* NotEstimatedError and leaves the estimator unestimated; the flag is never set
\* without data.
C6_AsStated ==
  [][ (~IsSet(covar.cov) /\ lastOp' \in NeedDiagonalized) =>
        (lastErr' = "NotEstimatedError" /\ ~estimated' /\ UNCHANGED << covar, model >>)
    ]_vars

\* C7: whenever a diagonalization has stored cumvar, it is as long as eigenvalues,
\* cumvar[k] = (sum of |lambda_i|^2, i <= k) / (sum of all |lambda_i|^2) is a
\* number, cumvar is non-decreasing and its last entry is 1.
C7_AsStated ==
  IsSet(model.cumvar) =>
    LET cv == model.cumvar
        n == Len(cv)
    IN  /\ n = Len(model.eigenvalues)
        /\ \A k \in 1 .. n :
             /\ cv[k].num = SumSq(model.eigenvalues, k)
             /\ cv[k].den = SumSq(model.eigenvalues, n)
             /\ cv[k].den > 0
        /\ \A k \in 1 .. n - 1 : cv[k].num * cv[k + 1].den <= cv[k + 1].num * cv[k].den
        /\ cv[n].num = cv[n].den

DiagTriggers == LazyProps \cup {"_diagonalize"}

\* C8 as stated: on an estimator that is already diagonalized, triggering the
\* diagonalization directly or through a lazy read does not run the eigen-solver
\* and changes neither the eigenpairs nor the accumulator.
C8_AsStated ==
  [][ (estimated /\ lastOp' \in DiagTriggers) =>
        (~solverRan' /\ UNCHANGED << model, covar, estimated >>)
    ]_vars

\* the cached eigenpairs solve the problem _diagonalize() would pose now
CacheSolvesCurrent ==
  IF Len(model.cov_tau) # Len(covar.cov) THEN FALSE
  ELSE LET pairs == eig_corr(covar.cov, model.cov_tau, epsilon)
       IN  /\ model.eigenvalues = Vals(pairs)
           /\ model.eigenvectors = Vecs(pairs)
           /\ model.cumvar = Cumvar(Vals(pairs))

\* C8 amended: on an estimator that is already diagonalized, a lazy read does not
\* run the eigen-solver and changes neither the eigenpairs nor the accumulator; a
\* direct _diagonalize() runs the eigen-solver again on the accumulator's cov and
\* the model's cov_tau, never changes the accumulator, and leaves the eigenpairs
\* as they are whenever they already solve that problem.
C8_Idempotent ==
  [][ /\ (estimated /\ lastOp' \in LazyProps) =>
           (lastErr' = "none" /\ ~solverRan' /\ UNCHANGED << model, covar, estimated >>)
      /\ (estimated /\ lastOp' = "_diagonalize") =>
           /\ solverRan'
           /\ estimated'
           /\ UNCHANGED covar
           /\ CacheSolvesCurrent => (lastErr' = "none" /\ UNCHANGED model)
    ]_vars

\* a lazy read has returned the cached eigenpairs of a diagonalized estimator
C8_Witness ==
  /\ lastOp \in LazyProps /\ lastErr = "none" /\ ~solverRan /\ estimated
  /\ IsSet(model.eigenvalues) /\ ~fitPending /\ CacheSolvesCurrent

\* C9: after an equilibrium-corrected estimation, ep0 is epsilon when the smallest
\* eigenvalue of C_0_eq is non-negative and max(epsilon, -min(s)) when it is
\* negative, so ep0 >= epsilon; every eigenvalue kept for the whitening has
\* magnitude above ep0 and is strictly positive.
C9_LocalCutoff ==
  (cls = "EquilibriumCorrectedTICA" /\ data_producer # 0) =>
    /\ ep0 = (IF evmin < 0 THEN Max(epsilon, -evmin) ELSE epsilon)
    /\ ep0 >= epsilon
    /\ \A i \in 1 .. Len(s_kept) : Abs(s_kept[i]) > ep0 /\ s_kept[i] > 0

\* an estimation whose C_0_eq had a negative eigenvalue below -epsilon
C9_Witness ==
  /\ cls = "EquilibriumCorrectedTICA" /\ lastOp = "estimate" /\ lastErr = "none"
  /\ evmin < 0 /\ ep0 > epsilon /\ s_kept # << >>

\* C10: whenever estimated holds, the accumulator's cov is the model's cov and
\* the cached eigenvalues, eigenvectors and cumvar are the solution of the
\* eigenproblem for the cov and cov_tau the estimator exposes.
C10_AsStated ==
  estimated =>
    /\ covar.cov = model.cov
    /\ Len(model.cov_tau) = Len(model.cov)
    /\ Len(model.cov_tau) = Len(model.cov) =>
         LET pairs == eig_corr(model.cov, model.cov_tau, epsilon)
         IN  /\ model.eigenvalues = Vals(pairs)
             /\ model.eigenvectors = Vecs(pairs)
             /\ model.cumvar = Cumvar(Vals(pairs))

\* C11: on an estimated estimator of either class, for every dim and
\* var_cutoff, transform(X) has as many columns as dimension() returns.
C11_AsStated ==
  (cls # "none" /\ estimated) =>
    (dimension.err = "none" /\ transform_columns = dimension.val)

====
